---- MODULE Spec2Model ----
(***************************************************************************)
(* The data-access layer of the movie application: the relational adapter  *)
(* (SQLiteDataManager over the User / Movie / Review tables) and the       *)
(* flat-file adapter (JSONDataManager over one JSON document).             *)
(* An application instance is configured with one adapter; every call on   *)
(* it runs to completion (one action per call).                            *)
(***************************************************************************)
EXTENDS Integers, Sequences, FiniteSets, TLC

VARIABLES adapter, users, movies, reviews, file, data, last, lookup, txn, seen

vars ==
  <<adapter, users, movies, reviews, file, data, last, lookup, txn, seen>>

(* ------------------------------ bounds --------------------------------- *)
MaxUserId == 2
MaxMovieId == 2
MaxReviewId == 1
MaxDocMovies == 2

UserIds == 1..MaxUserId
MovieIds == 1..MaxMovieId
ReviewIds == 1..MaxReviewId

(* inputs of the calls under Spec: two catalogue titles, so a user can own *)
(* several movies; the review table is not used                            *)
Names == {"alice", "bob"}
ImdbIDs == {"tt1", "tt2"}
NewTitles == {"Inception 2"}
NewRatings == {"9.0"}

(* inputs of the calls under SpecReviews: every operation, reviews included, *)
(* over one catalogue title                                                  *)
RNames == {"alice"}
RImdbIDs == {"tt1"}
RTitles == {"Inception 2", "Dune"}
RRatings == {"9.0"}
ReviewTexts == {"good", "bad"}
ReviewRatings == {5}

(* what a call hands back: Python's None / True / False, or the exception *)
RNone == "None"
RTrue == "True"
RFalse == "False"
ValueError == "ValueError"
IntegrityError == "IntegrityError"

(* the managers that may be opened on the flat file; the application uses one *)
Instances == {1, 2}
Active == {1}

(* Python's None in an integer column *)
NullId == 0

(* -------------------- the metadata record of a title ------------------- *)
(* app.py add_movie: the movie dict built from the lookup's answer *)
MovieDict(i) ==
  IF i = "tt1"
  THEN [title |-> "Inception", year |-> "2010", rating |-> "8.8",
        poster |-> "p1", imdbID |-> i]
  ELSE [title |-> "Up", year |-> "2009", rating |-> "N/A",
        poster |-> "p2", imdbID |-> i]

(* the same record under the key the flat-file adapter reads (imdb_ID) *)
JsonMovieDict(i) ==
  [title |-> MovieDict(i).title, year |-> MovieDict(i).year,
   rating |-> MovieDict(i).rating, poster |-> MovieDict(i).poster,
   imdb_ID |-> i]

(* The last call made on the adapter: its name, its arguments (0 or "" for *)
(* an argument the call does not take) and what it handed back. For        *)
(* add_user, uid is the identity the store assigned; rows is the number of *)
(* stored rows (records) the call removed.                                 *)
Call(op, uid, mid, rid, imdb, name, title, rating, res, rows) ==
  [op |-> op, uid |-> uid, mid |-> mid, rid |-> rid, imdb |-> imdb,
   name |-> name, title |-> title, rating |-> rating, res |-> res,
   rows |-> rows]

Max(S) == CHOOSE x \in S : \A y \in S : y <= x

(* INTEGER PRIMARY KEY without AUTOINCREMENT: the engine assigns max(rowid)+1 *)
NextRowId(ids) == IF ids = {} THEN 1 ELSE Max(ids) + 1

(* ======================= the relational adapter ======================== *)
(* The tables hold what is committed. The engine is SQLite as the          *)
(* application opens it: NOT NULL and UNIQUE are enforced, foreign keys    *)
(* are declared but not enforced (no PRAGMA foreign_keys).                 *)

UserRows(uid) == {u \in users : u.user_id = uid}
MovieRows(mid) == {m \in movies : m.movie_id = mid}
ReviewRows(rid) == {r \in reviews : r.review_id = rid}

UserExists(uid) == UserRows(uid) # {}
MovieExists(mid) == MovieRows(mid) # {}

(* user.movies: the Movie rows whose user_id is the user's *)
UserMovies(uid) == {m \in movies : m.user_id = uid}

SqlGetUserMovies(user_id) ==
  IF UserExists(user_id) THEN UserMovies(user_id) ELSE {}

SqlGetUserName(user_id) ==
  IF UserExists(user_id)
  THEN (CHOOSE u \in users : u.user_id = user_id).username
  ELSE RNone

SqlGetReviewsForMovie(movie_id) ==
  IF MovieExists(movie_id)
  THEN {r \in reviews : r.movie_id = movie_id}
  ELSE {}

ReviewsKept(gone) == reviews

(* Movie.reviews has cascade='all, delete-orphan': deleting the movies     *)
(* `gone` deletes their reviews in the same flush                           *)
ReviewsAfterMovieDelete(gone) ==
  {r \in reviews : r.movie_id \notin {m.movie_id : m \in gone}}

MovieUserIdNullable == FALSE

(* Movie.user_id is declared nullable=False: the engine rejects a NULL     *)
MovieUserIdNotNull == TRUE

(* Movie.imdbID is declared unique=True *)
ImdbIdTaken(imdb) == \E m \in movies : m.imdbID = imdb

SqlOnly == /\ adapter = "sql"
           /\ UNCHANGED <<adapter, file, data, lookup, txn, seen>>

SqlAddUser(username) ==
  /\ SqlOnly
  /\ LET id == NextRowId({u.user_id : u \in users}) IN
       /\ id <= MaxUserId
       /\ users' = users \cup {[user_id |-> id, username |-> username]}
       /\ last' = Call("add_user", id, 0, 0, "", username, "", "", RNone, 0)
  /\ UNCHANGED <<movies, reviews>>

FirstUserRow(user_id) ==
  IF users = {} THEN {}
  ELSE {CHOOSE u \in users : \A v \in users : u.user_id <= v.user_id}

(* session.get(User, user_id) of delete_user: the row to delete, if any *)
DeleteUserTarget(user_id) == UserRows(user_id)

MoviesOfUserKept(user_id) == movies

(* `for movie in user.movies: session.delete(movie)` *)
MoviesAfterUserDelete(user_id) == movies \ UserMovies(user_id)

SqlDeleteUser(user_id) ==
  /\ SqlOnly
  /\ LET target == DeleteUserTarget(user_id) IN
     IF target # {}
     THEN LET uid == (CHOOSE u \in target : TRUE).user_id IN
          /\ movies' = MoviesAfterUserDelete(uid)
          /\ reviews' = ReviewsAfterMovieDelete(UserMovies(uid))
          /\ users' = users \ target
          /\ last' = Call("delete_user", user_id, 0, 0, "", "", "", "", RNone,
                          Cardinality(target)
                          + Cardinality(movies \ MoviesAfterUserDelete(uid))
                          + Cardinality(reviews \
                                ReviewsAfterMovieDelete(UserMovies(uid))))
     ELSE /\ UNCHANGED <<users, movies, reviews>>
          /\ last' = Call("delete_user", user_id, 0, 0, "", "", "", "", RNone, 0)

NewMovieRow(id, user_id, movie) ==
  [movie_id |-> id, title |-> movie.title, year |-> movie.year,
   rating |-> movie.rating, user_id |-> user_id, poster |-> movie.poster,
   imdbID |-> movie.imdbID]

SqlAddMovieToUser(user_id, imdb) ==
  /\ SqlOnly
  /\ UNCHANGED <<users, reviews>>
  /\ IF UserExists(user_id)
     THEN IF ImdbIdTaken(imdb)
          THEN /\ UNCHANGED movies
               /\ last' = Call("add_movie_to_user", user_id, 0, 0, imdb, "", "",
                               "", IntegrityError, 0)
          ELSE LET id == NextRowId({m.movie_id : m \in movies}) IN
               /\ id <= MaxMovieId
               /\ movies' = movies \cup {NewMovieRow(id, user_id, MovieDict(imdb))}
               /\ last' = Call("add_movie_to_user", user_id, id, 0, imdb, "", "",
                               "", RNone, 0)
     ELSE /\ UNCHANGED movies
          /\ last' = Call("add_movie_to_user", user_id, 0, 0, imdb, "", "", "",
                          RNone, 0)

UpdateMovieNoOwnerCheck(user_id, movie_id) ==
  \E m \in movies : m.movie_id = movie_id

(* `movie and movie.user_id == user_id` of update_movie *)
UpdateMovieAllowed(user_id, movie_id) ==
  \E m \in movies : m.movie_id = movie_id /\ m.user_id = user_id

UpdatedMovieRowAndYear(m, new_title, new_rating) ==
  [m EXCEPT !.title = new_title, !.year = "", !.rating = new_rating]

(* movie.title = new_title; movie.rating = new_rating *)
UpdatedMovieRow(m, new_title, new_rating) ==
  [m EXCEPT !.title = new_title, !.rating = new_rating]

SqlUpdateMovie(user_id, movie_id, new_title, new_rating) ==
  /\ SqlOnly
  /\ UNCHANGED <<users, reviews>>
  /\ IF UpdateMovieAllowed(user_id, movie_id)
     THEN /\ movies' = {IF m.movie_id = movie_id
                        THEN UpdatedMovieRow(m, new_title, new_rating)
                        ELSE m : m \in movies}
          /\ last' = Call("update_movie", user_id, movie_id, 0, "", "",
                          new_title, new_rating, RTrue, 0)
     ELSE /\ UNCHANGED movies
          /\ last' = Call("update_movie", user_id, movie_id, 0, "", "",
                          new_title, new_rating, RFalse, 0)

(* `movie and movie.user_id == user_id` of delete_movie *)
DeleteMovieAllowed(user_id, movie_id) ==
  \E m \in movies : m.movie_id = movie_id /\ m.user_id = user_id

SqlDeleteMovie(user_id, movie_id) ==
  /\ SqlOnly
  /\ UNCHANGED users
  /\ IF DeleteMovieAllowed(user_id, movie_id)
     THEN /\ movies' = movies \ MovieRows(movie_id)
          /\ reviews' = ReviewsAfterMovieDelete(MovieRows(movie_id))
          /\ last' = Call("delete_movie", user_id, movie_id, 0, "", "", "", "",
                          RNone,
                          Cardinality(MovieRows(movie_id))
                          + Cardinality(reviews \
                                ReviewsAfterMovieDelete(MovieRows(movie_id))))
     ELSE /\ UNCHANGED <<movies, reviews>>
          /\ last' = Call("delete_movie", user_id, movie_id, 0, "", "", "", "",
                          RNone, 0)

SqlAddReview(user_id, movie_id, review_text, rating) ==
  /\ SqlOnly
  /\ UNCHANGED <<users, movies>>
  /\ IF ~UserExists(user_id) \/ ~MovieExists(movie_id)
     THEN /\ UNCHANGED reviews
          /\ last' = Call("add_review", user_id, movie_id, 0, "", "", "", "",
                          ValueError, 0)
     ELSE LET id == NextRowId({r.review_id : r \in reviews}) IN
          /\ id <= MaxReviewId
          /\ reviews' = reviews \cup
                {[review_id |-> id, user_id |-> user_id, movie_id |-> movie_id,
                  review_text |-> review_text, rating |-> rating]}
          /\ last' = Call("add_review", user_id, movie_id, id, "", "", "", "",
                          RNone, 0)

(* Review.update_review: the review table after the call; an id that is   *)
(* not stored changes nothing                                              *)
ReviewUpdateReview(review_id, new_review_text, new_rating) ==
  {IF r.review_id = review_id
   THEN [r EXCEPT !.review_text = new_review_text, !.rating = new_rating]
   ELSE r : r \in reviews}

(* the update_review route: user_id and movie_id come with the URL and are *)
(* only used for the redirect; the review is looked up by review_id alone  *)
UpdateReview(user_id, movie_id, review_id, new_review_text, new_rating) ==
  /\ SqlOnly
  /\ UNCHANGED <<users, movies>>
  /\ reviews' = ReviewUpdateReview(review_id, new_review_text, new_rating)
  /\ last' = Call("update_review", user_id, movie_id, review_id, "", "", "",
                  "", RNone, 0)

(* the delete_review route *)
DeleteReview(user_id, movie_id, review_id) ==
  /\ SqlOnly
  /\ UNCHANGED <<users, movies>>
  /\ IF ~UserExists(user_id)
     THEN /\ UNCHANGED reviews
          /\ last' = Call("delete_review", user_id, movie_id, review_id, "", "",
                          "", "", "User not found.", 0)
     ELSE IF ~MovieExists(movie_id)
     THEN /\ UNCHANGED reviews
          /\ last' = Call("delete_review", user_id, movie_id, review_id, "", "",
                          "", "", "Movie not found.", 0)
     ELSE IF ReviewRows(review_id) = {}
     THEN /\ UNCHANGED reviews
          /\ last' = Call("delete_review", user_id, movie_id, review_id, "", "",
                          "", "", "Review not found.", 0)
     ELSE /\ reviews' = reviews \ ReviewRows(review_id)
          /\ last' = Call("delete_review", user_id, movie_id, review_id, "", "",
                          "", "", RNone, 1)

(* User.delete_user of the model class: the user's movies get user_id None, *)
(* the user is deleted, and the commit flushes both; a movie row that may   *)
(* not hold NULL makes the flush fail and the transaction roll back         *)
UserDeleteUser(user_id) ==
  /\ SqlOnly
  /\ UNCHANGED reviews
  /\ IF ~UserExists(user_id)
     THEN /\ UNCHANGED <<users, movies>>
          /\ last' = Call("User.delete_user", user_id, 0, 0, "", "", "", "",
                          RNone, 0)
     ELSE IF UserMovies(user_id) # {} /\ MovieUserIdNotNull
     THEN /\ UNCHANGED <<users, movies>>
          /\ last' = Call("User.delete_user", user_id, 0, 0, "", "", "", "",
                          IntegrityError, 0)
     ELSE /\ movies' = {IF m.user_id = user_id
                        THEN [m EXCEPT !.user_id = NullId]
                        ELSE m : m \in movies}
          /\ users' = users \ UserRows(user_id)
          /\ last' = Call("User.delete_user", user_id, 0, 0, "", "", "", "",
                          RNone, 1)

(* ---------------- delete_user, statement by statement ------------------ *)
(* The session of the request that runs delete_user: where the call stands *)
(* (pc), the user it was called for, the ids of the movies user.movies     *)
(* held when the loop began (owned) and of those session.delete has marked *)
(* so far (deleted). Nothing of it is written to the tables before commit. *)
Session(pc, uid, owned, deleted) ==
  [pc |-> pc, uid |-> uid, owned |-> owned, deleted |-> deleted]

Min(S) == CHOOSE x \in S : \A y \in S : x <= y

TxnFrame == /\ adapter = "sql"
            /\ UNCHANGED <<adapter, file, data, lookup, seen>>

(* user = session.get(User, user_id); `if user:` *)
DeleteUserGet(user_id) ==
  /\ TxnFrame
  /\ txn.pc = "idle"
  /\ UNCHANGED <<users, movies, reviews>>
  /\ IF UserExists(user_id)
     THEN /\ txn' = Session("loop", user_id,
                            {m.movie_id : m \in UserMovies(user_id)}, {})
          /\ UNCHANGED last
     ELSE /\ txn' = Session("idle", user_id, {}, {})
          /\ last' = Call("delete_user", user_id, 0, 0, "", "", "", "", RNone, 0)

(* one turn of `for movie in user.movies: session.delete(movie)` *)
DeleteUserMarkMovie ==
  /\ TxnFrame
  /\ txn.pc = "loop"
  /\ txn.owned # txn.deleted
  /\ txn' = [txn EXCEPT !.deleted = @ \cup {Min(txn.owned \ txn.deleted)}]
  /\ UNCHANGED <<users, movies, reviews, last>>

(* session.delete(user), once the loop is over *)
DeleteUserMarkUser ==
  /\ TxnFrame
  /\ txn.pc = "loop"
  /\ txn.owned = txn.deleted
  /\ txn' = [txn EXCEPT !.pc = "commit"]
  /\ UNCHANGED <<users, movies, reviews, last>>

(* session.commit(): every marked row, and the reviews the cascade takes  *)
(* with the movies, leave the tables in one transaction                    *)
DeleteUserCommit ==
  /\ TxnFrame
  /\ txn.pc = "commit"
  /\ LET gone == {m \in movies : m.movie_id \in txn.deleted} IN
     /\ movies' = movies \ gone
     /\ reviews' = ReviewsAfterMovieDelete(gone)
     /\ users' = users \ UserRows(txn.uid)
     /\ last' = Call("delete_user", txn.uid, 0, 0, "", "", "", "", RNone,
                     Cardinality(UserRows(txn.uid)) + Cardinality(gone)
                     + Cardinality(reviews \ ReviewsAfterMovieDelete(gone)))
  /\ txn' = [txn EXCEPT !.pc = "idle", !.deleted = {}]

(* a statement of the call raises (the engine reports the database locked, *)
(* say): the exception leaves delete_user, nothing was committed and the   *)
(* session is discarded with what it had marked                            *)
DeleteUserFail ==
  /\ TxnFrame
  /\ txn.pc \in {"loop", "commit"}
  /\ UNCHANGED <<users, movies, reviews>>
  /\ last' = Call("delete_user", txn.uid, 0, 0, "", "", "", "",
                  "OperationalError", 0)
  /\ txn' = [txn EXCEPT !.pc = "idle", !.deleted = {}]

UncommittedMovies(deleted) ==
  {m \in movies : m.movie_id \notin deleted}

(* what another connection reads while a session has marked the movies    *)
(* `deleted`: the committed rows; the one commit is the last statement    *)
CommittedMovies(deleted) == movies

(* A reader on its own connection (get_user_movies of another request)     *)
(* looks at user_id while delete_user of that user runs or right after    *)
(* it; phase tells where the delete_user stood:                            *)
(* "loop" / "commit" while it runs, "done" / "failed" when it was the last *)
(* call made and returned / raised, "none" otherwise.                      *)
ReaderPhase(user_id) ==
  IF txn.uid # user_id THEN "none"
  ELSE IF txn.pc # "idle" THEN txn.pc
  ELSE IF last.op = "delete_user" /\ last.uid = user_id
       THEN (IF last.res = RNone THEN "done" ELSE "failed")
       ELSE "none"

Observation(user_id, phase, pending, user, ms, owned) ==
  [uid |-> user_id, phase |-> phase, pending |-> pending, user |-> user,
   movies |-> ms, owned |-> owned]

Read(user_id) ==
  /\ adapter = "sql"
  /\ ReaderPhase(user_id) # "none"
  /\ UNCHANGED <<adapter, users, movies, reviews, file, data, last, lookup,
                 txn>>
  /\ seen' = Observation(user_id, ReaderPhase(user_id),
                         Cardinality(txn.deleted), UserExists(user_id),
                         {m.movie_id : m \in {n \in CommittedMovies(txn.deleted) :
                                                n.user_id = user_id}},
                         IF ReaderPhase(user_id) = "none" THEN {}
                         ELSE txn.owned)

(* ======================== the flat-file adapter ======================== *)

(* The file holds JSON text: an array of objects, an object being its     *)
(* "key": value pairs in the order the dict holds them, a list an array.   *)

(* json.dump of a movie dict / of a user dict (the ID is stamped last) *)
DumpMovie(m) ==
  <<<<"title", m.title>>, <<"year", m.year>>, <<"rating", m.rating>>,
    <<"poster", m.poster>>, <<"imdb_ID", m.imdb_ID>>>>

DumpUser(u) ==
  <<<<"name", u.name>>,
    <<"movies", [j \in DOMAIN u.movies |-> DumpMovie(u.movies[j])]>>,
    <<"ID", u.ID>>>>

JsonDump(doc) == [k \in DOMAIN doc |-> DumpUser(doc[k])]

(* json.load: each object becomes a dict again, a value found by its key *)
Member(obj, key) == obj[CHOOSE n \in DOMAIN obj : obj[n][1] = key][2]

ParseMovie(obj) ==
  [title |-> Member(obj, "title"), year |-> Member(obj, "year"),
   rating |-> Member(obj, "rating"), poster |-> Member(obj, "poster"),
   imdb_ID |-> Member(obj, "imdb_ID")]

ParseUser(obj) ==
  [ID |-> Member(obj, "ID"), name |-> Member(obj, "name"),
   movies |-> [j \in DOMAIN Member(obj, "movies") |->
                 ParseMovie(Member(obj, "movies")[j])]]

JsonLoad(text) == [k \in DOMAIN text |-> ParseUser(text[k])]

(* load_data: the document of the file, [] when there is no file *)
LoadData(f) == IF f.exists THEN JsonLoad(f.doc) ELSE <<>>

SaveDataSkipped(doc) == file

(* save_data: the whole document, serialized, replaces the file *)
SaveData(doc) == [exists |-> TRUE, doc |-> JsonDump(doc)]

DocIds(doc) == {doc[k].ID : k \in DOMAIN doc}

(* next(... for user in self.data if user['ID'] == user_id ..., None):     *)
(* the index of the first such record, 0 for None                          *)
FirstUser(doc, user_id) ==
  IF \E k \in DOMAIN doc : doc[k].ID = user_id
  THEN CHOOSE k \in DOMAIN doc :
         /\ doc[k].ID = user_id
         /\ \A j \in 1..(k - 1) : doc[j].ID # user_id
  ELSE 0

FirstMovie(ms, imdb) ==
  IF \E k \in DOMAIN ms : ms[k].imdb_ID = imdb
  THEN CHOOSE k \in DOMAIN ms :
         /\ ms[k].imdb_ID = imdb
         /\ \A j \in 1..(k - 1) : ms[j].imdb_ID # imdb
  ELSE 0

RECURSIVE SumLen(_, _)
SumLen(doc, k) == IF k = 0 THEN 0 ELSE Len(doc[k].movies) + SumLen(doc, k - 1)
DocMovieCount(doc) == SumLen(doc, Len(doc))
DocRows(doc) == Len(doc) + DocMovieCount(doc)

(* get_user_movies over the document a manager holds *)
DocUserMovies(doc, user_id) ==
  LET k == FirstUser(doc, user_id) IN
  IF k = 0 THEN <<>> ELSE doc[k].movies

JsonGetUserMovies(i, user_id) == DocUserMovies(data[i], user_id)

(* the loop returns at its first record: the name if that record matches,  *)
(* None if it does not; an empty list falls through to None                 *)
JsonGetUserName(i, user_id) ==
  IF data[i] = <<>> THEN RNone
  ELSE IF data[i][1].ID = user_id THEN data[i][1].name
  ELSE RNone

JsonNextIdByCount(doc) == Len(doc) + 1

(* max([user['ID'] for user in self.data]) + 1 if self.data else 1 *)
JsonNextId(doc) == IF doc = <<>> THEN 1 ELSE Max(DocIds(doc)) + 1

JsonOnly == /\ adapter = "json"
            /\ UNCHANGED <<adapter, users, movies, reviews, lookup, txn, seen>>

(* add_user is handed the user object (its name, an empty movie list) and  *)
(* stamps the ID on it before appending it                                 *)
JsonAddUser(i, name) ==
  /\ JsonOnly
  /\ LET next_id == JsonNextId(data[i])
         doc == Append(data[i], [ID |-> next_id, name |-> name, movies |-> <<>>])
     IN /\ next_id <= MaxUserId
        /\ data' = [data EXCEPT ![i] = doc]
        /\ file' = SaveData(doc)
        /\ last' = Call("add_user", next_id, 0, 0, "", name, "", "", RNone, 0)

JsonDeleteUser(i, user_id) ==
  /\ JsonOnly
  /\ LET IsOther(u) == u.ID # user_id
         doc == SelectSeq(data[i], IsOther)
     IN /\ data' = [data EXCEPT ![i] = doc]
        /\ file' = SaveData(doc)
        /\ last' = Call("delete_user", user_id, 0, 0, "", "", "", "", RNone,
                        DocRows(data[i]) - DocRows(doc))

JsonAddMovieToUser(i, user_id, imdb) ==
  /\ JsonOnly
  /\ LET loaded == LoadData(file)
         k == FirstUser(loaded, user_id)
     IN IF k # 0
        THEN LET doc == [loaded EXCEPT ![k].movies =
                            Append(@, JsonMovieDict(imdb))]
             IN /\ DocMovieCount(loaded) < MaxDocMovies
                /\ data' = [data EXCEPT ![i] = doc]
                /\ file' = SaveData(doc)
                /\ last' = Call("add_movie_to_user", user_id, 0, 0, imdb, "", "",
                                "", RNone, 0)
        ELSE /\ data' = [data EXCEPT ![i] = loaded]
             /\ UNCHANGED file
             /\ last' = Call("add_movie_to_user", user_id, 0, 0, imdb, "", "",
                             "", ValueError, 0)

JsonUpdateMovie(i, user_id, movie_id, new_title, new_rating) ==
  /\ JsonOnly
  /\ LET k == FirstUser(data[i], user_id)
         j == IF k = 0 THEN 0 ELSE FirstMovie(data[i][k].movies, movie_id)
     IN IF k # 0 /\ j # 0
        THEN LET doc == [data[i] EXCEPT ![k].movies[j].title = new_title,
                                        ![k].movies[j].rating = new_rating]
             IN /\ data' = [data EXCEPT ![i] = doc]
                /\ file' = SaveData(doc)
                /\ last' = Call("update_movie", user_id, 0, 0, movie_id, "",
                                new_title, new_rating, RNone, 0)
        ELSE /\ UNCHANGED <<data, file>>
             /\ last' = Call("update_movie", user_id, 0, 0, movie_id, "",
                             new_title, new_rating, ValueError, 0)

JsonDeleteMovie(i, user_id, movie_id) ==
  /\ JsonOnly
  /\ LET k == FirstUser(data[i], user_id)
         IsOther(m) == m.imdb_ID # movie_id
     IN IF k # 0
        THEN LET doc == [data[i] EXCEPT ![k].movies = SelectSeq(@, IsOther)]
             IN /\ data' = [data EXCEPT ![i] = doc]
                /\ file' = SaveData(doc)
                /\ last' = Call("delete_movie", user_id, 0, 0, movie_id, "", "",
                                "", RNone, DocRows(data[i]) - DocRows(doc))
        ELSE /\ UNCHANGED <<data, file>>
             /\ last' = Call("delete_movie", user_id, 0, 0, movie_id, "", "",
                             "", ValueError, 0)

(* ========================= the metadata lookup ========================= *)
(* What the metadata service does with one GET: the request fails before   *)
(* any response (sent = FALSE: timeout, DNS, refused connection), or a     *)
(* response comes back with a status and a body. The service answers an    *)
(* unknown title with status 200 and {"Response": "False", ...}, a bad key *)
(* with status 401 and a {"Response": "False", ...} body; a gateway error  *)
(* carries a body that is not JSON.                                        *)
ServiceAnswers ==
  {[sent |-> TRUE, status |-> "200", body |-> "movie"],
   [sent |-> TRUE, status |-> "200", body |-> "response_false"],
   [sent |-> TRUE, status |-> "401", body |-> "response_false"],
   [sent |-> TRUE, status |-> "502", body |-> "not_json"],
   [sent |-> FALSE, status |-> "", body |-> ""]}

LookupTitles == {"Inception"}

Returns(what) == [how |-> "returns", what |-> what]
Raises(what) == [how |-> "raises", what |-> what]

(* data_api of either adapter: requests.get, response.json(), the test of  *)
(* the Response field; the status of the response is never looked at       *)
DataApi(a) ==
  IF ~a.sent THEN Raises("ConnectionError")
  ELSE IF a.body = "not_json" THEN Raises("JSONDecodeError")
  ELSE IF a.body = "response_false" THEN Raises(ValueError)
  ELSE Returns("movie record")

(* fetch_movie_details: requests.get and raise_for_status inside a try     *)
(* whose except clause prints the RequestException and returns {}; a 200   *)
(* body is returned as it is, whatever its Response field says             *)
FetchDetails(a) ==
  IF ~a.sent THEN Returns("{}")
  ELSE IF a.status \in {"401", "502"} THEN Returns("{}")
  ELSE IF a.status = "200"
       THEN IF a.body = "movie" THEN Returns("movie record")
            ELSE Returns("Response False record")
       ELSE Returns("{}")

NoLookup == [entry |-> "none", title |-> "", answer |-> "", outcome |-> ""]

LookupOnly ==
  UNCHANGED <<adapter, users, movies, reviews, file, data, last, txn, seen>>

SqlDataApi(title_movie, a) ==
  /\ adapter = "sql"
  /\ LookupOnly
  /\ lookup' = [entry |-> "SQLiteDataManager.data_api", title |-> title_movie,
                answer |-> a, outcome |-> DataApi(a)]

JsonDataApi(title_movie, a) ==
  /\ adapter = "json"
  /\ LookupOnly
  /\ lookup' = [entry |-> "JSONDataManager.data_api", title |-> title_movie,
                answer |-> a, outcome |-> DataApi(a)]

FetchMovieDetails(movie_title, a) ==
  /\ LookupOnly
  /\ lookup' = [entry |-> "fetch_movie_details", title |-> movie_title,
                answer |-> a, outcome |-> FetchDetails(a)]

(* ============================ specification ============================ *)

Init ==
  /\ adapter \in {"sql", "json"}
  /\ users = {}
  /\ movies = {}
  /\ reviews = {}
  /\ file = [exists |-> FALSE, doc |-> <<>>]
  /\ data = [i \in Instances |-> LoadData(file)]
  /\ last = Call("init", 0, 0, 0, "", "", "", "", RNone, 0)
  /\ lookup = NoLookup
  /\ txn = Session("idle", 0, {}, {})
  /\ seen = Observation(0, "none", 0, FALSE, {}, {})

MovieCalls(names, imdbs, titles, ratings) ==
  \/ \E n \in names : SqlAddUser(n)
  \/ \E u \in UserIds : SqlDeleteUser(u)
  \/ \E u \in UserIds, i \in imdbs : SqlAddMovieToUser(u, i)
  \/ \E u \in UserIds, m \in MovieIds, t \in titles, r \in ratings :
       SqlUpdateMovie(u, m, t, r)
  \/ \E u \in UserIds, m \in MovieIds : SqlDeleteMovie(u, m)
  \/ \E u \in UserIds : UserDeleteUser(u)
  \/ \E i \in Active, n \in names : JsonAddUser(i, n)
  \/ \E i \in Active, u \in UserIds : JsonDeleteUser(i, u)
  \/ \E i \in Active, u \in UserIds, m \in imdbs : JsonAddMovieToUser(i, u, m)
  \/ \E i \in Active, u \in UserIds, m \in imdbs, t \in titles, r \in ratings :
       JsonUpdateMovie(i, u, m, t, r)
  \/ \E i \in Active, u \in UserIds, m \in imdbs : JsonDeleteMovie(i, u, m)

ReviewCalls ==
  \/ \E u \in UserIds, m \in MovieIds, x \in ReviewTexts, r \in ReviewRatings :
       SqlAddReview(u, m, x, r)
  \/ \E u \in UserIds, m \in MovieIds, q \in ReviewIds,
        x \in ReviewTexts, r \in ReviewRatings : UpdateReview(u, m, q, x, r)
  \/ \E u \in UserIds, m \in MovieIds, q \in ReviewIds : DeleteReview(u, m, q)

Next == MovieCalls(Names, ImdbIDs, NewTitles, NewRatings)

NextReviews ==
  \/ MovieCalls(RNames, RImdbIDs, RTitles, RRatings)
  \/ ReviewCalls

(* the lookups next to the calls of one adapter over one catalogue title *)
LookupCalls ==
  \/ \E t \in LookupTitles, a \in ServiceAnswers : SqlDataApi(t, a)
  \/ \E t \in LookupTitles, a \in ServiceAnswers : JsonDataApi(t, a)
  \/ \E t \in LookupTitles, a \in ServiceAnswers : FetchMovieDetails(t, a)

NextLookup ==
  \/ MovieCalls(RNames, RImdbIDs, NewTitles, NewRatings)
  \/ LookupCalls

(* two managers opened on the same file, used one call at a time: each    *)
(* call runs to completion before the next one, of either manager, starts *)
ManagerCalls(i) ==
  \/ \E n \in RNames : JsonAddUser(i, n)
  \/ \E u \in UserIds : JsonDeleteUser(i, u)
  \/ \E u \in UserIds, m \in RImdbIDs : JsonAddMovieToUser(i, u, m)
  \/ \E u \in UserIds, m \in RImdbIDs, t \in NewTitles, r \in NewRatings :
       JsonUpdateMovie(i, u, m, t, r)
  \/ \E u \in UserIds, m \in RImdbIDs : JsonDeleteMovie(i, u, m)

NextManagers == \E i \in Instances : ManagerCalls(i)

(* delete_user of the relational adapter statement by statement, with a   *)
(* reader on another connection at any point; the other writers run       *)
(* between two delete_user calls                                           *)
NextAtomic ==
  \/ /\ txn.pc = "idle"
     /\ \/ \E n \in RNames : SqlAddUser(n)
        \/ \E u \in UserIds, i \in ImdbIDs : SqlAddMovieToUser(u, i)
  \/ \E u \in UserIds : DeleteUserGet(u)
  \/ DeleteUserMarkMovie
  \/ DeleteUserMarkUser
  \/ DeleteUserCommit
  \/ DeleteUserFail
  \/ \E u \in UserIds : Read(u)

(* the relational adapter's calls over two catalogue titles, reviews      *)
(* included                                                                *)
NextUpdate ==
  \/ \E n \in RNames : SqlAddUser(n)
  \/ \E u \in UserIds : SqlDeleteUser(u)
  \/ \E u \in UserIds, i \in ImdbIDs : SqlAddMovieToUser(u, i)
  \/ \E u \in UserIds, m \in MovieIds, t \in NewTitles, r \in NewRatings :
       SqlUpdateMovie(u, m, t, r)
  \/ \E u \in UserIds, m \in MovieIds : SqlDeleteMovie(u, m)
  \/ \E u \in UserIds, m \in MovieIds, r \in ReviewRatings :
       SqlAddReview(u, m, "good", r)

Spec == Init /\ [][Next]_vars

SpecUpdate == Init /\ [][NextUpdate]_vars

SpecAtomic == Init /\ [][NextAtomic]_vars

SpecManagers == Init /\ [][NextManagers]_vars

SpecLookup == Init /\ [][NextLookup]_vars

SpecReviews == Init /\ [][NextReviews]_vars

(* =============================== claims ================================ *)

(* what the call recorded in last' found before it ran *)
TargetUserAbsent ==
  IF adapter = "sql" THEN ~UserExists(last'.uid)
  ELSE last'.uid \notin DocIds(data[1])

StoreUnchanged ==
  /\ UNCHANGED <<users, movies, reviews>>
  /\ data'[1] = data[1]
  /\ LoadData(file') = LoadData(file)

IdsUnique(doc) == \A j, k \in DOMAIN doc : j # k => doc[j].ID # doc[k].ID

(* C1: in the relational adapter, update_movie(u, m, t, r) on a stored     *)
(* movie m returns True and sets m's title to t and rating to r when u is  *)
(* m's owner, and returns False and leaves every stored row unchanged when *)
(* u is any other user id.                                                 *)
C1_UpdateMovieOwnerOnly ==
  [][(adapter = "sql" /\ last'.op = "update_movie") =>
       \A m \in movies : m.movie_id = last'.mid =>
         IF m.user_id = last'.uid
         THEN /\ last'.res = RTrue
              /\ \E n \in movies' : /\ n.movie_id = m.movie_id
                                    /\ n.title = last'.title
                                    /\ n.rating = last'.rating
         ELSE /\ last'.res = RFalse
              /\ UNCHANGED <<users, movies, reviews>>]_vars

(* a movie its owner retitled, and then another existing user's update of *)
(* it, with a different title, refused                                     *)
C1_Witness ==
  /\ adapter = "sql"
  /\ last.op = "update_movie"
  /\ last.res = RFalse
  /\ UserExists(last.uid)
  /\ \E m \in movies : /\ m.movie_id = last.mid
                       /\ m.user_id # last.uid
                       /\ m.title \in RTitles
                       /\ m.title # last.title

(* C2: in both adapters, once delete_user(u) has returned the store holds  *)
(* no movie owned by u and get_user_movies(u) is empty.                    *)
C2_DeleteUserRemovesMovies ==
  last.op = "delete_user" =>
    IF adapter = "sql"
    THEN /\ UserMovies(last.uid) = {}
         /\ SqlGetUserMovies(last.uid) = {}
    ELSE /\ JsonGetUserMovies(1, last.uid) = <<>>
         /\ last.uid \notin DocIds(LoadData(file))

(* delete_user of a user who owned two movies: three rows went *)
C2_Witness ==
  /\ last.op = "delete_user"
  /\ last.rows = 3

(* C3: in the relational adapter, a step that removes a movie row (by      *)
(* delete_movie, or by delete_user of its owner) removes every review of   *)
(* that movie in the same step: no stored review references it afterwards  *)
(* and get_reviews_for_movie of it is empty.                               *)
C3_MovieDeleteCascadesToReviews ==
  [][adapter = "sql" =>
       \A m \in movies :
         (\A n \in movies' : n.movie_id # m.movie_id) =>
           /\ \A r \in reviews' : r.movie_id # m.movie_id
           /\ SqlGetReviewsForMovie(m.movie_id)' = {}]_vars

(* delete_user of a user whose one movie carried a review: the user, the  *)
(* movie and the review went                                               *)
C3_Witness ==
  /\ adapter = "sql"
  /\ last.op = "delete_user"
  /\ last.rows = 3
  /\ movies = {}
  /\ reviews = {}

(* C4: in the relational store every stored review's movie_id references   *)
(* an existing movie and its user_id references an existing user.          *)
C4_ReviewsReferenceExistingRows ==
  adapter = "sql" =>
    \A r \in reviews : MovieExists(r.movie_id) /\ UserExists(r.user_id)

C6_AddMovieUnknownUserFails ==
  [][(/\ last'.op = "add_movie_to_user"
      /\ IF adapter = "sql" THEN ~UserExists(last'.uid)
         ELSE last'.uid \notin DocIds(LoadData(file)))
     => /\ last'.res = ValueError
        /\ movies' = movies
        /\ LoadData(file') = LoadData(file)]_vars

(* C7: in both adapters, right after add_user(n), get_user_name of the id  *)
(* the new user was given returns n.                                       *)
C7_AddUserThenGetUserName ==
  last.op = "add_user" =>
    (IF adapter = "sql" THEN SqlGetUserName(last.uid)
     ELSE JsonGetUserName(1, last.uid)) = last.name

(* C8: in the flat-file adapter add_user appends the new user with the id  *)
(* max(existing ids) + 1, or 1 when there is no user, and after every call *)
(* no two users of the document share an id.                               *)
C8_AddUserAssignsMaxPlusOne ==
  [][adapter = "json" =>
       /\ last'.op = "add_user" =>
            /\ last'.uid = IF data[1] = <<>> THEN 1
                           ELSE Max(DocIds(data[1])) + 1
            /\ Len(data'[1]) = Len(data[1]) + 1
            /\ data'[1][Len(data'[1])].ID = last'.uid
       /\ IdsUnique(data'[1])
       /\ IdsUnique(LoadData(file'))]_vars

(* add_user on a store that already holds a user *)
C8_Witness ==
  /\ adapter = "json"
  /\ last.op = "add_user"
  /\ Len(data[1]) = 2
  /\ last.uid = 2
  /\ data[1][2].ID = 2

(* C9: in both adapters delete_user(u) for a u that is not in the store    *)
(* raises nothing and leaves the users, movies and reviews unchanged (so a *)
(* second delete_user(u) changes nothing).                                 *)
C9_DeleteAbsentUserIsNoOp ==
  [][(last'.op = "delete_user" /\ TargetUserAbsent) =>
       /\ last'.res = RNone
       /\ StoreUnchanged]_vars

(* delete_user of an absent id on a store holding a user, a movie and a   *)
(* review                                                                  *)
C9_Witness ==
  /\ adapter = "sql"
  /\ last.op = "delete_user"
  /\ last.rows = 0
  /\ ~UserExists(last.uid)
  /\ users # {} /\ movies # {} /\ reviews # {}

(* C10: in both adapters delete_movie(u, m) raises nothing and leaves the  *)
(* store unchanged whenever m is not a stored movie owned by u, also when  *)
(* u is not a stored user.                                                 *)
C10_DeleteMovieNotOwnedIsNoOp ==
  [][(/\ last'.op = "delete_movie"
      /\ IF adapter = "sql"
         THEN ~\E m \in movies : m.movie_id = last'.mid /\ m.user_id = last'.uid
         ELSE ~\E k \in DOMAIN data[1] :
                 /\ data[1][k].ID = last'.uid
                 /\ \E j \in DOMAIN data[1][k].movies :
                      data[1][k].movies[j].imdb_ID = last'.imdb)
     => /\ last'.res = RNone
        /\ StoreUnchanged]_vars

(* C11: in the flat-file adapter update_movie(u, m, t, r), when u is not a *)
(* stored user or no movie in u's own list has the external identifier m,  *)
(* hands back False (raises nothing) and leaves the stored data unchanged. *)
C11_UpdateMovieFailureIsFalse ==
  [][(/\ adapter = "json"
      /\ last'.op = "update_movie"
      /\ ~\E k \in DOMAIN data[1] :
            /\ data[1][k].ID = last'.uid
            /\ \E j \in DOMAIN data[1][k].movies :
                 data[1][k].movies[j].imdb_ID = last'.imdb)
     => /\ last'.res = RFalse
        /\ StoreUnchanged]_vars

(* C12: every review operation checks its references before it changes    *)
(* anything: when add_review, update_review or delete_review is called     *)
(* with a user_id or a movie_id that is not stored, the call fails with a  *)
(* user-not-found / movie-not-found error and the review table is          *)
(* unchanged.                                                              *)
C12_ReviewCallsValidateReferences ==
  [][(/\ adapter = "sql"
      /\ last'.op \in {"add_review", "update_review", "delete_review"}
      /\ ~UserExists(last'.uid) \/ ~MovieExists(last'.mid))
     => /\ last'.res \in {ValueError, "User not found.", "Movie not found."}
        /\ reviews' = reviews]_vars

(* the answer says "no match": status 200, Response field "False" *)
AnswerNoMatch(a) == a.sent /\ a.status = "200" /\ a.body = "response_false"

(* the request failed in transport: no response, or a non-2xx status *)
AnswerTransportFailure(a) == ~a.sent \/ a.status # "200"

(* C13: at every lookup entry point (SQLiteDataManager.data_api,           *)
(* JSONDataManager.data_api, fetch_movie_details) an answer whose Response *)
(* field is "False" ends in the not-found outcome, a transport failure     *)
(* ends in a different, lookup-failed outcome, and neither comes back to   *)
(* the caller as a returned record, empty or not.                          *)
C13_LookupOutcomesDistinct ==
  lookup.entry # "none" =>
    /\ AnswerNoMatch(lookup.answer) => lookup.outcome = Raises(ValueError)
    /\ AnswerTransportFailure(lookup.answer) =>
         /\ lookup.outcome.how = "raises"
         /\ lookup.outcome # Raises(ValueError)

(* the user record v of the file after the step is the record u of the    *)
(* file before it, but for the movie the call itself updates or deletes   *)
RecordKept(u, v) ==
  /\ v.ID = u.ID
  /\ v.name = u.name
  /\ \A j \in DOMAIN u.movies :
       \/ /\ last'.op \in {"update_movie", "delete_movie"}
          /\ last'.uid = u.ID
          /\ last'.imdb = u.movies[j].imdb_ID
       \/ \E k \in DOMAIN v.movies : v.movies[k] = u.movies[j]

(* C14: in the flat-file adapter every mutating call works on the document *)
(* as it is on disk, so with two managers on one file, used one call at a  *)
(* time, no call of one manager undoes what the other has written: every   *)
(* user record and every movie of the file is still in the file after the  *)
(* call, but for the one user or movie the call itself deletes or updates. *)
C14_NoLostUpdate ==
  [][adapter = "json" =>
       \A k \in DOMAIN LoadData(file) :
         \/ last'.op = "delete_user" /\ last'.uid = LoadData(file)[k].ID
         \/ \E j \in DOMAIN LoadData(file') :
              RecordKept(LoadData(file)[k], LoadData(file')[j])]_vars

(* C15: in the flat-file adapter with one manager, once a mutating call    *)
(* (add_user, delete_user, add_movie_to_user, update_movie, delete_movie)  *)
(* has returned normally, the document read back from the file equals the  *)
(* manager's in-memory data; and after add_movie_to_user(u, m) a manager   *)
(* freshly loaded from the file returns, as the last of get_user_movies(u),*)
(* a record equal to m field by field.                                     *)
C15_FileEqualsMemoryAfterCall ==
  (/\ adapter = "json"
   /\ last.op \in {"add_user", "delete_user", "add_movie_to_user",
                   "update_movie", "delete_movie"}
   /\ last.res = RNone)
  => /\ LoadData(file) = data[1]
     /\ last.op = "add_movie_to_user" =>
          LET ms == DocUserMovies(LoadData(file), last.uid) IN
          /\ ms # <<>>
          /\ ms[Len(ms)] = JsonMovieDict(last.imdb)

(* add_movie_to_user of a second title for a user who already holds one *)
C15_Witness ==
  /\ adapter = "json"
  /\ last.op = "add_movie_to_user"
  /\ last.res = RNone
  /\ last.imdb = "tt2"
  /\ Len(DocUserMovies(LoadData(file), last.uid)) = 2
  /\ DocUserMovies(LoadData(file), last.uid)[1].imdb_ID = "tt1"

(* C16: in the relational adapter, a reader that looks at a user while,   *)
(* or right after, delete_user of that user runs, the user owning two or  *)
(* more movies, sees either the user with all of the movies or neither    *)
(* the user nor any of the movies, never a part; and when a statement of  *)
(* delete_user failed it sees the user with all of the movies.            *)
C16_DeleteUserAtomicForReaders ==
  (seen.phase # "none" /\ Cardinality(seen.owned) >= 2) =>
    /\ \/ seen.user /\ seen.movies = seen.owned
       \/ ~seen.user /\ seen.movies = {}
    /\ seen.phase = "failed" => seen.user /\ seen.movies = seen.owned

(* a read in the middle of the loop: one of the user's two movies marked *)
C16_Witness ==
  /\ seen.phase = "loop"
  /\ seen.pending = 1
  /\ Cardinality(seen.owned) = 2
  /\ seen.user
  /\ seen.movies = seen.owned

(* C17: in the relational adapter an update_movie(u, m, t, r) that returns *)
(* True changes the title and the rating of movie m and nothing else: m    *)
(* keeps its year, poster, imdbID and owner, its reviews are the same, and *)
(* every other movie, every user and every review is unchanged.            *)
C17_UpdateMovieFrame ==
  [][(adapter = "sql" /\ last'.op = "update_movie" /\ last'.res = RTrue) =>
       /\ users' = users
       /\ reviews' = reviews
       /\ \A q \in MovieIds :
            SqlGetReviewsForMovie(q)' = SqlGetReviewsForMovie(q)
       /\ Cardinality(movies') = Cardinality(movies)
       /\ \A m \in movies :
            IF m.movie_id = last'.mid
            THEN [m EXCEPT !.title = last'.title, !.rating = last'.rating]
                   \in movies'
            ELSE m \in movies']_vars

(* update_movie by the owner of a reviewed movie, another movie stored *)
C17_Witness ==
  /\ adapter = "sql"
  /\ last.op = "update_movie"
  /\ last.res = RTrue
  /\ Cardinality(movies) = 2
  /\ \E m \in movies : /\ m.movie_id = last.mid
                       /\ m.title = last.title
                       /\ m.year \in {"2010", "2009"}
  /\ SqlGetReviewsForMovie(last.mid) # {}

====
